---- MODULE Spec2Model ----
(***************************************************************************)
(* Model of ImageSearch.py: the library index built at import time, the    *)
(* Tk front-end (region selection, check_match) and the worker threads     *)
(* that run App._pipeline.                                                  *)
(*                                                                         *)
(* Strings (file names, the clipboard text, the result label) are          *)
(* sequences of one-character strings, so that suffix extraction,          *)
(* lower-casing and splitext are computed and not assumed.                 *)
(* A perceptual hash is a bit vector of HashLen bits; what imagehash       *)
(* computes from the pixels is an input of the model.                      *)
(***************************************************************************)
EXTENDS Integers, Sequences, FiniteSets, TLC

\* ------------------------------------------------------------------ bounds
MaxThreads == 2     \* worker threads alive at the same time
MaxCoord   == 1     \* mouse events of the overlay fall on 0..MaxCoord
MaxSelect  == 1     \* region selections in one run
MaxFiles   == 2     \* files in the Images/ directory
HashLen    == 2     \* bits of a perceptual hash

Threads == 1..MaxThreads
Coords  == 0..MaxCoord
Bit     == {0, 1}
Hashes  == [1..HashLen -> Bit]

\* ----------------------------------------------------------------- strings
UpperAlphabet == <<"A","B","C","D","E","F","G","H","I","J","K","L","M",
                   "N","O","P","Q","R","S","T","U","V","W","X","Y","Z">>
LowerAlphabet == <<"a","b","c","d","e","f","g","h","i","j","k","l","m",
                   "n","o","p","q","r","s","t","u","v","w","x","y","z">>

\* str.lower() on one character
LowerChar(c) ==
    IF \E i \in 1..Len(UpperAlphabet) : UpperAlphabet[i] = c
    THEN LowerAlphabet[CHOOSE i \in 1..Len(UpperAlphabet) : UpperAlphabet[i] = c]
    ELSE c

\* str.lower() as the code applies it to path.suffix
Lower(s) == [i \in 1..Len(s) |-> LowerChar(s[i])]

\* str.rfind(c), 1-based; 0 when c does not occur
RFind(s, c) ==
    IF \E i \in 1..Len(s) : s[i] = c
    THEN CHOOSE i \in 1..Len(s) : s[i] = c /\ \A j \in (i+1)..Len(s) : s[j] # c
    ELSE 0

\* pathlib.PurePath.suffix of a file name
Suffix(name) ==
    LET i == RFind(name, ".")
    IN  IF 1 < i /\ i < Len(name) THEN SubSeq(name, i, Len(name)) ELSE <<>>

\* os.path.splitext(name)[0]: cut at the last dot unless only dots precede it
SplitextStem(name) ==
    LET i == RFind(name, ".")
    IN  IF i > 0 /\ \E j \in 1..(i-1) : name[j] # "."
        THEN SubSeq(name, 1, i-1)
        ELSE name

\* the extension set of load_library_hashes
SUPPORTED == { <<".","p","n","g">>, <<".","j","p","g">>, <<".","j","p","e","g">>,
               <<".","b","m","p">>, <<".","g","i","f">> }

NoMatchText == <<"(","n","o"," ","m","a","t","c","h",")">>

\* None / the empty string: both are falsy in `if best_name:` and `if not self.region:`
None == <<>>

\* ------------------------------------------------------------------ hashing
\* imagehash: h1 - h2 is the number of differing bits
Hamming(a, b) == Cardinality({i \in 1..HashLen : a[i] # b[i]})

\* float('inf'): larger than every distance
Inf == HashLen + 1

\* faulty variant of Closer: <= lets a later entry at the same distance win
CloserTie(d, best_dist) == d <= best_dist

\* the comparison of best_match's loop
Closer(d, best_dist) == d < best_dist

\* best_match's loop over library_hashes.items(), from entry i on
RECURSIVE BestFrom(_, _, _, _, _)
BestFrom(target_hash, library_hashes, i, best_name, best_dist) ==
    IF i > Len(library_hashes) THEN <<best_name, best_dist>>
    ELSE LET name == library_hashes[i][1]
             d    == Hamming(target_hash, library_hashes[i][2])
         IN  IF Closer(d, best_dist)
             THEN BestFrom(target_hash, library_hashes, i+1, name, d)
             ELSE BestFrom(target_hash, library_hashes, i+1, best_name, best_dist)

\* best_match(target_hash, library_hashes); the dict is a sequence of
\* <<name, hash>> pairs in insertion order
best_match(target_hash, library_hashes) ==
    BestFrom(target_hash, library_hashes, 1, None, Inf)

\* ------------------------------------------------------------ library build
\* Names the directory may hold
FileNames == { <<"a",".","p","n","g">>, <<"b",".","P","N","G">>,
               <<"c",".","G","i","f">>, <<"n",".","t","x","t">>,
               <<"d">> }

\* A directory entry: its name, whether Image.open/convert/phash succeed on it,
\* and the hash they give when they do
Files == [name : FileNames, ok : BOOLEAN, h : Hashes]

\* Directory listings in iterdir order, of at most MaxFiles entries: no two
\* entries share a name
Dirs ==
    UNION { {d \in [1..len -> Files] :
                \A i, j \in 1..len : i # j => d[i].name # d[j].name}
            : len \in 0..MaxFiles }

\* faulty variant of HasSupportedSuffix: the suffix compared without lower()
HasSupportedSuffixCaseSensitive(name) == Suffix(name) \in SUPPORTED

\* path.suffix.lower() in {...}
HasSupportedSuffix(name) == Lower(Suffix(name)) \in SUPPORTED

\* the loop of load_library_hashes over the listing, from entry i on
RECURSIVE LoadFrom(_, _, _)
LoadFrom(listing, i, hashes) ==
    IF i > Len(listing) THEN hashes
    ELSE LET f == listing[i]
         IN  IF ~HasSupportedSuffix(f.name) THEN LoadFrom(listing, i+1, hashes)
             ELSE IF f.ok THEN LoadFrom(listing, i+1, Append(hashes, <<f.name, f.h>>))
             ELSE LoadFrom(listing, i+1, hashes)

\* the dict load_library_hashes has filled when its loop ends
ScannedHashes(listing) == LoadFrom(listing, 1, <<>>)

\* faulty variant of BuildRaises: the emptiness check left out
BuildNeverRaises(hashes) == FALSE

\* `if not hashes: raise RuntimeError`
BuildRaises(hashes) == hashes = <<>>


\* --------------------------------------------------------------- the screen
\* the region check_match falls back to when none was selected
DefaultRegion == <<880, 512, 1081, 655>>

\* Image.frombytes('RGB', img_rgb.size, img_rgb.rgb): an image of the grabbed size
PilImage(width, height) == [w |-> width, h |-> height]

FullBox(width, height) == <<0, 0, width, height>>

\* Column / row positions a bounding box edge is drawn from
Edges(n) == {0, 1, n}

\* What alpha.getbbox() can return for a non-transparent width x height image:
\* (left, upper, right, lower) with left < right <= width, upper < lower <= height
BBoxes(width, height) ==
    {box \in {<<l, u, r, b>> : l \in Edges(width), u \in Edges(height),
                               r \in Edges(width), b \in Edges(height)} :
        /\ box[1] < box[3] /\ box[3] <= width
        /\ box[2] < box[4] /\ box[4] <= height}

\* What remove(pil).convert('RGBA') returns: rembg keeps the size of its input,
\* so an image of pil's size, whose alpha channel has bounding box bbox (None:
\* fully transparent); crop names the part of that image the pixels show
RemovedImage(pil, bbox) ==
    [w |-> pil.w, h |-> pil.h, bbox |-> bbox, crop |-> FullBox(pil.w, pil.h)]

\* Image.crop(box)
Crop(img, box) ==
    [w |-> box[3] - box[1], h |-> box[4] - box[2],
     bbox |-> FullBox(box[3] - box[1], box[4] - box[2]), crop |-> box]

\* Image.resize(size, Image.LANCZOS)
Resize(img, size) ==
    [w |-> size.w, h |-> size.h, bbox |-> FullBox(size.w, size.h), crop |-> img.crop]

\* faulty variant of AutoResize: crops without looking at the bounding box
AutoResizeAlwaysCrop(pil, pil_no_bg, auto) ==
    IF auto
    THEN Resize(Crop(pil_no_bg, IF pil_no_bg.bbox = None
                                THEN FullBox(0, 0) ELSE pil_no_bg.bbox), pil)
    ELSE pil_no_bg

\* lines 150-154 of _pipeline
AutoResize(pil, pil_no_bg, auto) ==
    IF auto
    THEN IF pil_no_bg.bbox # None
         THEN Resize(Crop(pil_no_bg, pil_no_bg.bbox), pil)
         ELSE pil_no_bg
    ELSE pil_no_bg

\* -------------------------------------------------------------------- state
VARIABLES
    dir,          \* listing of Images/ when the module is imported
    pc_main,      \* "build" (importing), "failed" (import raised), "serving" (mainloop)
    LIB_HASHES,   \* the module-level index, a sequence of <<name, hash>>
    region,       \* App.region: None or (x1, y1, x2, y2)
    overlay,      \* whether the selection overlay is open
    start,        \* (start_x, start_y) of the overlay, None before a press
    nsel,         \* region selections made so far
    auto_resize,  \* App.auto_resize
    clipboard,    \* text on the system clipboard
    result_var,   \* App.result_var
    pc,           \* per worker thread: where it is in _pipeline
    frame         \* per worker thread: the locals of _pipeline assigned so far

vars == <<dir, pc_main, LIB_HASHES, region, overlay, start, nsel, auto_resize,
          clipboard, result_var, pc, frame>>

gui == <<region, overlay, start, nsel, auto_resize>>
build == <<dir, pc_main, LIB_HASHES>>

\* record f with field k set to v
Put(f, k, v) == [x \in DOMAIN f \cup {k} |-> IF x = k THEN v ELSE f[x]]

\* record f without field k
Drop(f, k) == [x \in DOMAIN f \ {k} |-> f[x]]

NoFrame == <<>>

Zeros == [i \in 1..HashLen |-> 0]
Ones  == [i \in 1..HashLen |-> 1]

\* Directories the program is started on: an empty one, one with no supported
\* file, one whose only image fails to load, and two that give an index
StartDirs ==
    { <<>>,
      << [name |-> <<"n",".","t","x","t">>, ok |-> TRUE, h |-> Zeros] >>,
      << [name |-> <<"a",".","p","n","g">>, ok |-> FALSE, h |-> Zeros] >>,
      << [name |-> <<"a",".","p","n","g">>, ok |-> FALSE, h |-> Zeros],
         [name |-> <<"c",".","G","i","f">>, ok |-> TRUE, h |-> Ones] >>,
      << [name |-> <<"a",".","p","n","g">>, ok |-> TRUE, h |-> Zeros],
         [name |-> <<"b",".","P","N","G">>, ok |-> TRUE, h |-> Ones] >> }

Init ==
    /\ dir \in StartDirs
    /\ pc_main = "build"
    /\ LIB_HASHES = <<>>
    /\ region = None
    /\ overlay = FALSE
    /\ start = None
    /\ nsel = 0
    /\ auto_resize = TRUE
    /\ clipboard = <<>>
    /\ result_var = <<>>
    /\ pc = [t \in Threads |-> "idle"]
    /\ frame = [t \in Threads |-> NoFrame]

\* LIB_HASHES = load_library_hashes() at import; a raise ends the process before
\* App exists
Build ==
    /\ pc_main = "build"
    /\ LET hashes == ScannedHashes(dir)
       IN  IF BuildRaises(hashes)
           THEN pc_main' = "failed" /\ UNCHANGED LIB_HASHES
           ELSE pc_main' = "serving" /\ LIB_HASHES' = hashes
    /\ UNCHANGED <<dir, gui, clipboard, result_var, pc, frame>>

\* App.select_region: the overlay opens, start_x = start_y = None
select_region ==
    /\ pc_main = "serving"
    /\ ~overlay
    /\ nsel < MaxSelect
    /\ overlay' = TRUE
    /\ start' = None
    /\ UNCHANGED <<build, region, nsel, auto_resize, clipboard, result_var, pc, frame>>

on_button_press ==
    /\ overlay
    /\ \E x \in Coords, y \in Coords : start' = <<x, y>>
    /\ UNCHANGED <<build, region, overlay, nsel, auto_resize, clipboard, result_var, pc, frame>>

Min(a, b) == IF a < b THEN a ELSE b
Max(a, b) == IF a > b THEN a ELSE b

\* on_button_release after a press: self.region is assigned, the overlay destroyed
on_button_release ==
    /\ overlay
    /\ start # None
    /\ \E end_x \in Coords, end_y \in Coords :
          region' = << Min(start[1], end_x), Min(start[2], end_y),
                       Max(start[1], end_x), Max(start[2], end_y) >>
    /\ overlay' = FALSE
    /\ start' = None
    /\ nsel' = nsel + 1
    /\ UNCHANGED <<build, auto_resize, clipboard, result_var, pc, frame>>

\* App.check_match (the Check button or key 'a'): starts a thread on _pipeline.
\* Beside the locals of _pipeline a frame records what the thread observed:
\* shown, the text of the result label when the query began, and held, the
\* values of self.region its reads met.
check_match(t) ==
    /\ pc_main = "serving"
    /\ pc[t] = "idle"
    /\ region' = IF region = None THEN DefaultRegion ELSE region
    /\ pc' = [pc EXCEPT ![t] = "left"]
    /\ frame' = [frame EXCEPT ![t] = [shown |-> result_var, held |-> {}]]
    /\ UNCHANGED <<build, overlay, start, nsel, auto_resize, clipboard, result_var>>

\* One evaluation of self.region[i] in the mon = {...} literal: field k of the
\* frame receives val, and the thread moves on to pc next
ReadRegion(t, at, next, k, i) ==
    /\ pc[t] = at
    /\ pc' = [pc EXCEPT ![t] = next]
    /\ frame' = [frame EXCEPT ![t] =
                    Put(Put(frame[t], k, region[i]), "held", frame[t].held \cup {region})]
    /\ UNCHANGED <<build, gui, clipboard, result_var>>

\* The second operand of a subtraction is read and the difference stored
ReadDiff(t, at, next, k, i) ==
    /\ pc[t] = at
    /\ pc' = [pc EXCEPT ![t] = next]
    /\ frame' = [frame EXCEPT ![t] =
                    Put(Put(Drop(frame[t], "tmp"), k, frame[t].tmp - region[i]),
                        "held", frame[t].held \cup {region})]
    /\ UNCHANGED <<build, gui, clipboard, result_var>>

read_left(t)   == ReadRegion(t, "left", "top", "left", 1)
read_top(t)    == ReadRegion(t, "top", "right", "top", 2)
read_right(t)  == ReadRegion(t, "right", "width", "tmp", 3)
read_width(t)  == ReadDiff(t, "width", "bottom", "width", 1)
read_bottom(t) == ReadRegion(t, "bottom", "height", "tmp", 4)
read_height(t) == ReadDiff(t, "height", "grab", "height", 2)

\* except Exception as err: messagebox.showerror
Raise(t, what) ==
    /\ pc' = [pc EXCEPT ![t] = "error"]
    /\ frame' = [frame EXCEPT ![t] = [err |-> what, shown |-> frame[t].shown]]

\* sct.grab(mon) and Image.frombytes
grab(t) ==
    /\ pc[t] = "grab"
    /\ \/ Raise(t, "capture")
       \/ /\ frame[t].width >= 0 /\ frame[t].height >= 0
          /\ pc' = [pc EXCEPT ![t] = "remove"]
          /\ frame' = [frame EXCEPT ![t] =
                          [pil |-> PilImage(frame[t].width, frame[t].height),
                           shown |-> frame[t].shown]]
    /\ UNCHANGED <<build, gui, clipboard, result_var>>

\* remove(pil).convert('RGBA') and the auto-resize block
remove(t) ==
    /\ pc[t] = "remove"
    /\ \/ Raise(t, "remove")
       \/ \E bbox \in BBoxes(frame[t].pil.w, frame[t].pil.h) \cup {None} :
             LET no_bg == RemovedImage(frame[t].pil, bbox)
             IN  /\ pc' = [pc EXCEPT ![t] = "hash"]
                 /\ frame' = [frame EXCEPT ![t] =
                       [pil |-> frame[t].pil, removed |-> no_bg,
                        pil_no_bg |-> AutoResize(frame[t].pil, no_bg, auto_resize),
                        shown |-> frame[t].shown]]
    /\ UNCHANGED <<build, gui, clipboard, result_var>>

\* faulty variant of Truthy: the test of best_name left out
AlwaysTruthy(best_name) == TRUE

\* `if best_name:`
Truthy(best_name) == best_name # None

\* compute_phash(pil_no_bg) and best_match(target_hash, LIB_HASHES)
hash_and_match(t) ==
    /\ pc[t] = "hash"
    /\ \/ Raise(t, "hash")
       \/ \E h \in Hashes :
             LET best == best_match(h, LIB_HASHES)
             IN  /\ pc' = [pc EXCEPT ![t] = "present"]
                 /\ frame' = [frame EXCEPT ![t] =
                       [target_hash |-> h, best_name |-> best[1], dist |-> best[2],
                        shown |-> frame[t].shown]]
    /\ UNCHANGED <<build, gui, clipboard, result_var>>

\* `if best_name:` name_no_ext = os.path.splitext(best_name)[0];
\* pyperclip.copy(name_no_ext); `else:` self.result_var.set("(no match)") and
\* the thread ends
present(t) ==
    /\ pc[t] = "present"
    /\ IF Truthy(frame[t].best_name)
       THEN /\ clipboard' = SplitextStem(frame[t].best_name)
            /\ pc' = [pc EXCEPT ![t] = "set"]
            /\ frame' = [frame EXCEPT ![t] =
                  Put(frame[t], "name_no_ext", SplitextStem(frame[t].best_name))]
            /\ UNCHANGED result_var
       ELSE /\ result_var' = NoMatchText
            /\ pc' = [pc EXCEPT ![t] = "idle"]
            /\ frame' = [frame EXCEPT ![t] = NoFrame]
            /\ UNCHANGED clipboard
    /\ UNCHANGED <<build, gui>>

\* self.result_var.set(name_no_ext); the thread ends
set_result(t) ==
    /\ pc[t] = "set"
    /\ result_var' = frame[t].name_no_ext
    /\ pc' = [pc EXCEPT ![t] = "idle"]
    /\ frame' = [frame EXCEPT ![t] = NoFrame]
    /\ UNCHANGED <<build, gui, clipboard>>

\* faulty variant of dismiss: the error path also resets the index
dismiss_and_reset(t) ==
    /\ pc[t] = "error"
    /\ pc' = [pc EXCEPT ![t] = "idle"]
    /\ frame' = [frame EXCEPT ![t] = NoFrame]
    /\ LIB_HASHES' = <<>>
    /\ UNCHANGED <<dir, pc_main, gui, clipboard, result_var>>

\* the error dialog is dismissed; the thread ends
dismiss(t) ==
    /\ pc[t] = "error"
    /\ pc' = [pc EXCEPT ![t] = "idle"]
    /\ frame' = [frame EXCEPT ![t] = NoFrame]
    /\ UNCHANGED <<build, gui, clipboard, result_var>>

Next ==
    \/ Build
    \/ select_region
    \/ on_button_press
    \/ on_button_release
    \/ \E t \in Threads : check_match(t)
    \/ \E t \in Threads : read_left(t)
    \/ \E t \in Threads : read_top(t)
    \/ \E t \in Threads : read_right(t)
    \/ \E t \in Threads : read_width(t)
    \/ \E t \in Threads : read_bottom(t)
    \/ \E t \in Threads : read_height(t)
    \/ \E t \in Threads : grab(t)
    \/ \E t \in Threads : remove(t)
    \/ \E t \in Threads : hash_and_match(t)
    \/ \E t \in Threads : present(t)
    \/ \E t \in Threads : set_result(t)
    \/ \E t \in Threads : dismiss(t)

Spec == Init /\ [][Next]_vars


\* ------------------------------------------- the build on every directory
InitBuild ==
    /\ dir \in Dirs
    /\ pc_main = "build"
    /\ LIB_HASHES = <<>>
    /\ region = None
    /\ overlay = FALSE
    /\ start = None
    /\ nsel = 0
    /\ auto_resize = TRUE
    /\ clipboard = <<>>
    /\ result_var = <<>>
    /\ pc = [t \in Threads |-> "idle"]
    /\ frame = [t \in Threads |-> NoFrame]

NextBuild == Build

SpecBuild == InitBuild /\ [][NextBuild]_vars

\* ---------------- _pipeline from the captured image on, on every index
\* Keys an index can hold
IndexNames == {n \in FileNames : HasSupportedSuffix(n)}

\* Every index of at most MaxFiles entries, the empty one included: a dict
\* holds a key once
Indexes ==
    UNION { {ix \in [1..len -> IndexNames \X Hashes] :
                \A i, j \in 1..len : i # j => ix[i][1] # ix[j][1]}
            : len \in 0..MaxFiles }

\* Sizes of the captured image
UnitSizes == {PilImage(n, n) : n \in 0..(MaxCoord + 1)}

InitUnit ==
    /\ dir = <<>>
    /\ pc_main = "serving"
    /\ LIB_HASHES \in Indexes
    /\ region = DefaultRegion
    /\ overlay = FALSE
    /\ start = None
    /\ nsel = 0
    /\ auto_resize \in BOOLEAN
    /\ clipboard = <<>>
    /\ result_var = <<>>
    /\ \E size \in UnitSizes :
          /\ pc = [t \in Threads |-> IF t = 1 THEN "remove" ELSE "idle"]
          /\ frame = [t \in Threads |->
                         IF t = 1 THEN [pil |-> size, shown |-> <<>>] ELSE NoFrame]

NextUnit ==
    \/ \E t \in Threads : remove(t)
    \/ \E t \in Threads : hash_and_match(t)
    \/ \E t \in Threads : present(t)
    \/ \E t \in Threads : set_result(t)
    \/ \E t \in Threads : dismiss(t)

SpecUnit == InitUnit /\ [][NextUnit]_vars


\* ================================================================== claims
\* A thread that holds the result of best_match
HasResult(t) == pc[t] \in {"present", "set"}

\* name ends, whatever the case of its letters, with the extension ext
EndsWith(name, ext) ==
    /\ Len(name) > Len(ext)
    /\ \A k \in 1..Len(ext) : LowerChar(name[Len(name) - Len(ext) + k]) = ext[k]

\* A file the index is meant to hold: supported extension, loads and hashes
Usable(f) == f.ok /\ \E ext \in SUPPORTED : EndsWith(f.name, ext)

\* The text is a match name: neither the initial empty label nor "(no match)"
IsMatchText(s) == s # <<>> /\ s # NoMatchText

MinOf(S) == CHOOSE m \in S : \A x \in S : m <= x

\* C1: on a non-empty index best_match returns the minimum Hamming distance
\* to the query and the name of the first entry, in the index's order, at
\* that distance.
C1_FirstMinimum ==
    \A t \in Threads :
       (HasResult(t) /\ LIB_HASHES # <<>>) =>
          LET h     == frame[t].target_hash
              dists == [i \in 1..Len(LIB_HASHES) |-> Hamming(h, LIB_HASHES[i][2])]
              m     == MinOf({dists[i] : i \in 1..Len(LIB_HASHES)})
              first == MinOf({i \in 1..Len(LIB_HASHES) : dists[i] = m})
          IN  /\ frame[t].dist = m
              /\ frame[t].best_name = LIB_HASHES[first][1]

\* A query whose two nearest entries are at the same distance
C1_Witness ==
    \E t \in Threads :
       /\ pc[t] = "present"
       /\ Len(LIB_HASHES) = 2
       /\ LIB_HASHES[1][2] # LIB_HASHES[2][2]
       /\ Hamming(frame[t].target_hash, LIB_HASHES[1][2])
            = Hamming(frame[t].target_hash, LIB_HASHES[2][2])
       /\ frame[t].best_name = LIB_HASHES[1][1]

\* C2: when no file of the directory is usable the build fails, and after a
\* failed build no thread ever runs _pipeline and nothing is displayed or
\* copied.
C2_EmptyLibraryRejected ==
    /\ (pc_main # "build" /\ \A i \in 1..Len(dir) : ~Usable(dir[i]))
          => pc_main = "failed"
    /\ pc_main = "failed" =>
          /\ \A t \in Threads : pc[t] = "idle" /\ frame[t] = NoFrame
          /\ LIB_HASHES = <<>> /\ region = None /\ ~overlay
          /\ clipboard = <<>> /\ result_var = <<>>

\* The build failed on a directory whose only image does not load
C2_Witness ==
    /\ pc_main = "failed"
    /\ \E i \in 1..Len(dir) : ~dir[i].ok /\ EndsWith(dir[i].name, <<".","p","n","g">>)

\* C3: after a successful build the keys of the index are exactly the names
\* of the usable files, each with its own hash, in directory order; the
\* build fails only when no file is usable.
C3_IndexKeys ==
    /\ pc_main = "serving" =>
          /\ {LIB_HASHES[k][1] : k \in 1..Len(LIB_HASHES)}
                = {dir[i].name : i \in {j \in 1..Len(dir) : Usable(dir[j])}}
          /\ \A k \in 1..Len(LIB_HASHES) : \E i \in 1..Len(dir) :
                dir[i].name = LIB_HASHES[k][1] /\ dir[i].h = LIB_HASHES[k][2]
          /\ \A k, l \in 1..Len(LIB_HASHES) : k # l => LIB_HASHES[k][1] # LIB_HASHES[l][1]
    /\ pc_main = "failed" => \A i \in 1..Len(dir) : ~Usable(dir[i])

\* An index built past a file that failed to load, holding an upper-case
\* extension
C3_Witness ==
    /\ pc_main = "serving"
    /\ \E i \in 1..Len(dir) : ~dir[i].ok /\ EndsWith(dir[i].name, <<".","p","n","g">>)
    /\ \E k \in 1..Len(LIB_HASHES) : LIB_HASHES[k][1] = <<"b",".","P","N","G">>

\* C4: a result of best_match is a name with a distance in 0..HashLen or the
\* pair (None, inf); on an empty index it is the latter, the pipeline writes
\* "(no match)" to the result label and nothing to the clipboard.
C4_EmptyIndexNoMatch ==
    /\ \A t \in Threads : HasResult(t) =>
          \/ frame[t].best_name # None /\ frame[t].dist \in 0..HashLen
          \/ frame[t].best_name = None /\ frame[t].dist = Inf
    /\ LIB_HASHES = <<>> =>
          /\ \A t \in Threads :
                /\ pc[t] # "set"
                /\ HasResult(t) => frame[t].best_name = None
                /\ pc[t] = "error" => frame[t].err \in {"remove", "hash"}
          /\ clipboard = <<>>
          /\ result_var \in {<<>>, NoMatchText}

\* The pipeline has displayed "(no match)" on an empty index
C4_Witness ==
    /\ LIB_HASHES = <<>>
    /\ result_var = NoMatchText
    /\ clipboard = <<>>
    /\ \A t \in Threads : pc[t] = "idle"

\* C5: once built, the index is what the build made of the directory, in
\* every state and whatever queries ran or failed; and every result is the
\* one best_match gives on that index for the query's hash.
C5_IndexFrozen ==
    pc_main = "serving" =>
       /\ LIB_HASHES = ScannedHashes(dir)
       /\ \A t \in Threads : HasResult(t) =>
             <<frame[t].best_name, frame[t].dist>>
                = best_match(frame[t].target_hash, ScannedHashes(dir))

\* A query holds its result after a region was selected and while another
\* query has failed
C5_Witness ==
    /\ nsel > 0
    /\ \E t1, t2 \in Threads :
          /\ pc[t1] = "error" /\ frame[t1].err = "remove"
          /\ pc[t2] = "set"

\* C6: a query whose background removal fails shows the error, writes
\* neither the clipboard nor the result label, and when it ends the label
\* does not show a match name that was already there when the query began.
C6_NoStaleResult ==
    [][\A t \in Threads :
         /\ (pc[t] = "remove" /\ pc'[t] = "error") =>
               /\ frame'[t].err = "remove"
               /\ clipboard' = clipboard
               /\ result_var' = result_var
         /\ (pc[t] = "error" /\ frame[t].err = "remove" /\ pc'[t] = "idle") =>
               ~(IsMatchText(result_var') /\ result_var' = frame[t].shown)
      ]_vars

\* Shared variables a live thread has written, by where it is in _pipeline
WrittenBy(t) == IF pc[t] = "set" THEN {"clipboard"} ELSE {}

\* Shared variables a live thread has read
ReadBy(t) ==
    IF pc[t] \in {"idle", "left"} THEN {}
    ELSE IF pc[t] \in {"top", "right", "width", "bottom", "height", "grab", "remove"}
    THEN {"region"}
    ELSE {"region", "auto_resize", "LIB_HASHES"}

\* C7: two threads that run _pipeline at the same time have no variable that
\* one has written and the other has read or written.
C7_NoSharedWrites ==
    \A t1, t2 \in Threads :
       t1 # t2 => WrittenBy(t1) \cap (WrittenBy(t2) \cup ReadBy(t2)) = {}

\* C9: when no thread runs and the label shows a match, the clipboard holds
\* the same text, a key of the index without its extension.
C9_ClipboardIsResult ==
    ((\A t \in Threads : pc[t] = "idle") /\ IsMatchText(result_var)) =>
       /\ clipboard = result_var
       /\ \E k \in 1..Len(LIB_HASHES) : \E ext \in SUPPORTED :
             /\ EndsWith(LIB_HASHES[k][1], ext)
             /\ LIB_HASHES[k][1] = result_var \o
                   SubSeq(LIB_HASHES[k][1], Len(result_var) + 1, Len(LIB_HASHES[k][1]))
             /\ Len(LIB_HASHES[k][1]) = Len(result_var) + Len(ext)

\* The rectangle grabbed for region value r
MonOf(r) == [left |-> r[1], top |-> r[2], width |-> r[3] - r[1], height |-> r[4] - r[2]]

\* C10: the rectangle a query grabs is the one of a single value self.region
\* held while the query read it, with left <= right and top <= bottom, so
\* its width and height are not negative.
C10_OneRegionValue ==
    \A t \in Threads :
       pc[t] = "grab" =>
          /\ frame[t].width >= 0 /\ frame[t].height >= 0
          /\ \E r \in frame[t].held :
                /\ r[1] <= r[3] /\ r[2] <= r[4]
                /\ MonOf(r) = [k \in {"left", "top", "width", "height"} |-> frame[t][k]]

\* C8: with auto-resize on, a fully transparent image is hashed as remove
\* returned it, any other is cropped to its bounding box and scaled to the
\* capture's size, so the hashed image has the capture's size; with
\* auto-resize off the image is hashed as remove returned it.
C8_AutoResize ==
    \A t \in Threads :
       pc[t] = "hash" =>
          LET p == frame[t].pil
              r == frame[t].removed
              c == frame[t].pil_no_bg
          IN  /\ (auto_resize /\ r.bbox = None) => c = r
              /\ (auto_resize /\ r.bbox # None) =>
                    c.w = p.w /\ c.h = p.h /\ c.crop = r.bbox
              /\ auto_resize => (c.w = p.w /\ c.h = p.h)
              /\ ~auto_resize => c = r

\* Auto-resize met a fully transparent image of a non-empty capture
C8_Witness ==
    \E t \in Threads :
       /\ pc[t] = "hash"
       /\ auto_resize
       /\ frame[t].pil.w > 0
       /\ frame[t].removed.bbox = None
       /\ frame[t].pil_no_bg = frame[t].removed

====
